---- MODULE Spec2Model ----
(***************************************************************************)
(* Moving-average crossover pipeline of main.py (console script) and       *)
(* app.py (Streamlit script).                                              *)
(*                                                                         *)
(* Rows of a DataFrame are numbered 1..n here; row 1 is the row pandas     *)
(* calls index 0.  Prices are integers; a rolling mean is kept as the      *)
(* exact fraction <<sum, nobs>> and compared by cross-multiplication.      *)
(* A missing float (NaN) is the empty tuple, a present one a 1-tuple.      *)
(***************************************************************************)
EXTENDS Integers, Sequences, FiniteSets, TLC

\* ---- bounds of the model ------------------------------------------------
MaxLen == 4
MaxPrice == 3
MaxWindow == 3

\* ---- values -------------------------------------------------------------
None == "None"

NaN == <<>>

Num(v) == <<v>>

\* x == v on floats: NaN compares unequal to everything
FloatEq(x, v) == x # NaN /\ x = Num(v)

\* x != v on floats: the negation of ==, hence true for NaN
FloatNe(x, v) == ~FloatEq(x, v)

\* a > b on rolling means; false when either side is missing
FloatGt(a, b) == a # NaN /\ b # NaN /\ a[1] * b[2] > b[1] * a[2]

Min(a, b) == IF a < b THEN a ELSE b

PriceSeries == UNION {[1..n -> 1..MaxPrice] : n \in 1..MaxLen}

Windows == 1..MaxWindow

\* ---- DataFrame primitives -----------------------------------------------
\* df[name] = col : adds the column, or overwrites it when present
SetColumn(df, name, col) ==
    [c \in (DOMAIN df) \cup {name} |-> IF c = name THEN col ELSE df[c]]

\* positional index of every row, in order
RowIndex(n) == [i \in 1..n |-> i]

\* DataFrame.head(n)
head(rows, n) == SubSeq(rows, 1, Min(n, Len(rows)))

HeadRows == 5

\* ---- rolling(window, min_periods).mean() --------------------------------
\* running sum of the window ending at row i: add the new row, drop the row
\* that left the window
RECURSIVE RollSum(_, _, _)
RollSum(close, window, i) ==
    IF i = 0 THEN 0
    ELSE RollSum(close, window, i - 1) + close[i]
         - (IF i > window THEN close[i - window] ELSE 0)

RECURSIVE RollNobs(_, _)
RollNobs(window, i) ==
    IF i = 0 THEN 0
    ELSE RollNobs(window, i - 1) + 1 - (IF i > window THEN 1 ELSE 0)

MinPeriods_Default(window) == window

MinPeriods(window) == 1

RollingMean(close, window) ==
    [i \in 1..Len(close) |->
        IF RollNobs(window, i) >= MinPeriods(window)
        THEN <<RollSum(close, window, i), RollNobs(window, i)>>
        ELSE NaN]

\* ---- fetch_data ---------------------------------------------------------
FetchOutcomes == {"ok", "empty", "exception"}

\* what yf.download hands back: a frame, empty or not, unless it raised
Downloaded(outcome, close) ==
    IF outcome = "ok" THEN [c \in {"Close"} |-> close]
    ELSE [c \in {"Close"} |-> <<>>]

fetch_data_NoEmptyCheck(outcome, ref) ==
    IF outcome \in {"ok", "empty"} THEN ref ELSE None

fetch_data(outcome, ref) ==
    IF outcome = "exception" THEN None
    ELSE IF outcome = "empty" THEN None
    ELSE ref

FetchMessage(outcome) ==
    IF outcome = "exception" THEN {"An error occurred while fetching data"}
    ELSE IF outcome = "empty" THEN {"No data found"}
    ELSE {}

\* ---- add_moving_averages ------------------------------------------------
add_moving_averages_ClobberClose(h, data, short_window, long_window) ==
    [h EXCEPT ![data] =
        SetColumn(SetColumn(SetColumn(@, "Close",
                                      [i \in 1..Len(@["Close"]) |-> RollSum(@["Close"], short_window, i)]),
                            "SMA_Short", RollingMean(@["Close"], short_window)),
                  "SMA_Long", RollingMean(@["Close"], long_window))]

\* the heap after the call: both columns are written into the caller's frame
add_moving_averages(h, data, short_window, long_window) ==
    [h EXCEPT ![data] =
        SetColumn(SetColumn(@, "SMA_Short", RollingMean(@["Close"], short_window)),
                  "SMA_Long", RollingMean(@["Close"], long_window))]

\* the reference the call returns
add_moving_averages_ret(data) == data

\* ---- generate_signals ---------------------------------------------------
SignalOf_Ge(s, l) == IF ~FloatGt(l, s) THEN 1 ELSE 0

\* np.where(SMA_Short > SMA_Long, 1.0, 0.0)
SignalOf(s, l) == IF FloatGt(s, l) THEN 1 ELSE 0

Diff_FillZero(col) ==
    [i \in 1..Len(col) |-> IF i = 1 THEN Num(0) ELSE Num(col[i] - col[i - 1])]

\* Series.diff()
Diff(col) ==
    [i \in 1..Len(col) |-> IF i = 1 THEN NaN ELSE Num(col[i] - col[i - 1])]

generate_signals(df) ==
    LET signal == [i \in 1..Len(df["Close"]) |->
                      SignalOf(df["SMA_Short"][i], df["SMA_Long"][i])]
    IN  [price     |-> df["Close"],
         SMA_Short |-> df["SMA_Short"],
         SMA_Long  |-> df["SMA_Long"],
         signal    |-> signal,
         positions |-> Diff(signal)]

\* ---- execute_trades (main.py) -------------------------------------------
RowAction_BuyOnly(p) ==
    IF FloatEq(p, 1) THEN "BUY" ELSE "none"

RowAction(p) ==
    IF FloatEq(p, 1) THEN "BUY"
    ELSE IF FloatEq(p, -1) THEN "SELL"
    ELSE "none"

RECURSIVE TradeLoop(_, _)
TradeLoop(signals, i) ==
    IF i = 0 THEN <<>>
    ELSE LET prev == TradeLoop(signals, i - 1)
             a    == RowAction(signals.positions[i])
         IN  IF a = "none" THEN prev
             ELSE Append(prev, [index |-> i, price |-> signals.price[i], action |-> a])

execute_trades(signals) == TradeLoop(signals, Len(signals.positions))

\* trading_signals[trading_signals['positions'] != 0].head()
SampleOfTrades(signals) ==
    head(SelectSeq(RowIndex(Len(signals.positions)),
                   LAMBDA i : FloatNe(signals.positions[i], 0)),
         HeadRows)

\* ---- chart markers and trade log (app.py) -------------------------------
BuySignals(signals) ==
    SelectSeq(RowIndex(Len(signals.positions)),
              LAMBDA i : FloatEq(signals.positions[i], 1))

SellSignals(signals) ==
    SelectSeq(RowIndex(Len(signals.positions)),
              LAMBDA i : FloatEq(signals.positions[i], -1))

LogAction(x) == IF FloatEq(x, 1) THEN "BUY" ELSE "SELL"

TradeLog(signals) ==
    LET rows == SelectSeq(RowIndex(Len(signals.positions)),
                          LAMBDA i : FloatEq(signals.positions[i], 1)
                                     \/ FloatEq(signals.positions[i], -1))
    IN  [k \in 1..Len(rows) |->
            [index  |-> rows[k],
             price  |-> signals.price[rows[k]],
             action |-> LogAction(signals.positions[rows[k]])]]

\* ---- state --------------------------------------------------------------
VARIABLES entry, pc, short_window, long_window, fetch_outcome, heap,
          price_data, price_data_with_ma, trading_signals,
          messages, called,
          trades, sample_trades, buy_signals, sell_signals, trade_log

vars == <<entry, pc, short_window, long_window, fetch_outcome, heap,
          price_data, price_data_with_ma, trading_signals,
          messages, called,
          trades, sample_trades, buy_signals, sell_signals, trade_log>>

config  == <<entry, short_window, long_window>>
refs    == <<price_data, price_data_with_ma, trading_signals>>
outputs == <<trades, sample_trades, buy_signals, sell_signals, trade_log>>

Init ==
    /\ entry \in {"main", "app"}
    /\ pc = "start"
    /\ short_window \in Windows
    /\ long_window \in Windows
    /\ fetch_outcome = None
    /\ heap = [r \in {} |-> <<>>]
    /\ price_data = None
    /\ price_data_with_ma = None
    /\ trading_signals = None
    /\ messages = {}
    /\ called = {}
    /\ trades = <<>>
    /\ sample_trades = <<>>
    /\ buy_signals = <<>>
    /\ sell_signals = <<>>
    /\ trade_log = <<>>

\* the call of fetch_data and the check of its result, shared by both scripts
FetchStep ==
    \E outcome \in FetchOutcomes, close \in PriceSeries :
        /\ fetch_outcome' = outcome
        /\ called' = called \cup {"fetch_data"}
        /\ heap' = IF outcome = "exception" THEN heap
                   ELSE heap @@ ("df1" :> Downloaded(outcome, close))
        /\ price_data' = fetch_data(outcome, "df1")
        /\ messages' = messages \cup FetchMessage(outcome)
        /\ pc' = IF price_data' = None THEN "done" ELSE "add_ma"

\* main.py run_strategy, step 1
MainFetch ==
    /\ entry = "main" /\ pc = "start"
    /\ FetchStep
    /\ UNCHANGED <<config, price_data_with_ma, trading_signals, outputs>>

\* app.py: the window check at the top of the script body
AppValidate ==
    /\ entry = "app" /\ pc = "start"
    /\ IF long_window <= short_window
       THEN /\ messages' = messages \cup {"Error: Long window must be greater than the short window."}
            /\ pc' = "done"
       ELSE /\ messages' = messages
            /\ pc' = "fetch"
    /\ UNCHANGED <<config, fetch_outcome, heap, refs, called, outputs>>

\* app.py: the else branch, step 1
AppFetch ==
    /\ entry = "app" /\ pc = "fetch"
    /\ FetchStep
    /\ UNCHANGED <<config, price_data_with_ma, trading_signals, outputs>>

\* step 2 of either script
AddMovingAverages ==
    /\ pc = "add_ma"
    /\ called' = called \cup {"add_moving_averages"}
    /\ heap' = add_moving_averages(heap, price_data, short_window, long_window)
    /\ price_data_with_ma' = add_moving_averages_ret(price_data)
    /\ pc' = "gen"
    /\ UNCHANGED <<config, fetch_outcome, price_data, trading_signals, messages, outputs>>

\* step 3 of either script
GenerateSignals ==
    /\ pc = "gen"
    /\ called' = called \cup {"generate_signals"}
    /\ heap' = heap @@ ("df2" :> generate_signals(heap[price_data_with_ma]))
    /\ trading_signals' = "df2"
    /\ pc' = IF entry = "main" THEN "exec" ELSE "chart"
    /\ UNCHANGED <<config, fetch_outcome, price_data, price_data_with_ma, messages, outputs>>

\* main.py run_strategy, step 4
MainExecuteTrades ==
    /\ entry = "main" /\ pc = "exec"
    /\ called' = called \cup {"execute_trades"}
    /\ trades' = execute_trades(heap[trading_signals])
    /\ pc' = "sample"
    /\ UNCHANGED <<config, fetch_outcome, heap, refs, messages,
                   sample_trades, buy_signals, sell_signals, trade_log>>

\* main.py run_strategy, the two sample prints
MainPrintSamples ==
    /\ entry = "main" /\ pc = "sample"
    /\ called' = called \cup {"present"}
    /\ sample_trades' = SampleOfTrades(heap[trading_signals])
    /\ pc' = "done"
    /\ UNCHANGED <<config, fetch_outcome, heap, refs, messages,
                   trades, buy_signals, sell_signals, trade_log>>

\* app.py: the Plotly chart with its buy and sell markers
AppChart ==
    /\ entry = "app" /\ pc = "chart"
    /\ called' = called \cup {"present"}
    /\ buy_signals' = BuySignals(heap[trading_signals])
    /\ sell_signals' = SellSignals(heap[trading_signals])
    /\ pc' = "log"
    /\ UNCHANGED <<config, fetch_outcome, heap, refs, messages,
                   trades, sample_trades, trade_log>>

\* app.py: the trade log table
AppTradeLog ==
    /\ entry = "app" /\ pc = "log"
    /\ trade_log' = TradeLog(heap[trading_signals])
    /\ pc' = "done"
    /\ UNCHANGED <<config, fetch_outcome, heap, refs, messages, called,
                   trades, sample_trades, buy_signals, sell_signals>>

Next ==
    \/ MainFetch
    \/ AppValidate
    \/ AppFetch
    \/ AddMovingAverages
    \/ GenerateSignals
    \/ MainExecuteTrades
    \/ MainPrintSamples
    \/ AppChart
    \/ AppTradeLog

Spec == Init /\ [][Next]_vars

\* ---- properties ---------------------------------------------------------
ConfigError == "Error: Long window must be greater than the short window."

HasSignals == trading_signals # None

Signals == heap[trading_signals]

Range(seq) == {seq[k] : k \in DOMAIN seq}

CountAction(events, a) == Cardinality({k \in DOMAIN events : events[k].action = a})

EventAt(events, i, a) == \E k \in DOMAIN events : events[k].index = i /\ events[k].action = a

RECURSIVE SumRange(_, _, _)
SumRange(close, lo, hi) ==
    IF hi < lo THEN 0 ELSE close[hi] + SumRange(close, lo, hi - 1)

\* the mean of close[max(0, i-window+1) .. i], rows counted from 1
IsWindowMean(sma, close, window, i) ==
    LET lo == IF i - window + 1 > 1 THEN i - window + 1 ELSE 1
    IN  /\ sma # NaN
        /\ sma[2] > 0
        /\ sma[1] * (i - lo + 1) = SumRange(close, lo, i) * sma[2]

\* the events of a list are exactly the rows whose position is 1 (BUY) or
\* -1 (SELL), and the first row carries none
EventsMatchPositions(events, positions) ==
    /\ \A k \in DOMAIN events : events[k].index \in 2..Len(positions)
    /\ \A i \in 1..Len(positions) :
          /\ EventAt(events, i, "BUY") <=> positions[i] = Num(1)
          /\ EventAt(events, i, "SELL") <=> positions[i] = Num(-1)
          /\ Cardinality({k \in DOMAIN events : events[k].index = i}) <= 1

\* C1: a BUY event is emitted at row i iff position[i] = 1 and a SELL event
\* iff position[i] = -1, by execute_trades of main.py and by the buy/sell
\* markers and the trade log of app.py; no other row, and never the first
\* row, carries an event.
C1_EventsExactlyAtCrossovers ==
    /\ (entry = "main" /\ "execute_trades" \in called) =>
          EventsMatchPositions(trades, Signals.positions)
    /\ (entry = "app" /\ pc \in {"log", "done"} /\ HasSignals) =>
          /\ \A i \in 1..Len(Signals.positions) :
                /\ i \in Range(buy_signals) <=> Signals.positions[i] = Num(1)
                /\ i \in Range(sell_signals) <=> Signals.positions[i] = Num(-1)
          /\ 1 \notin Range(buy_signals) \cup Range(sell_signals)
          /\ Range(buy_signals) \cup Range(sell_signals) \subseteq 1..Len(Signals.positions)
    /\ (entry = "app" /\ pc = "done" /\ HasSignals) =>
          EventsMatchPositions(trade_log, Signals.positions)

C1_Witness ==
    /\ entry = "main" /\ pc = "done" /\ HasSignals
    /\ CountAction(trades, "BUY") = 1
    /\ CountAction(trades, "SELL") = 1

\* C2: every signal is 0 or 1, it is 1 exactly where the short average is
\* strictly above the long one, and a tie of the two averages gives 0.
C2_SignalIsStrictComparison ==
    HasSignals =>
        \A i \in 1..Len(Signals.signal) :
            LET s == Signals.SMA_Short[i]
                l == Signals.SMA_Long[i]
            IN  /\ Signals.signal[i] \in {0, 1}
                /\ Signals.signal[i] = 1 <=> s[1] * l[2] > l[1] * s[2]
                /\ s[1] * l[2] = l[1] * s[2] => Signals.signal[i] = 0

C2_Witness ==
    /\ HasSignals
    /\ \E i, j \in 2..Len(Signals.signal) :
          /\ Signals.SMA_Short[i][1] * Signals.SMA_Long[i][2]
               = Signals.SMA_Long[i][1] * Signals.SMA_Short[i][2]
          /\ Signals.SMA_Short[i] # Signals.SMA_Long[i]
          /\ Signals.signal[j] = 1

\* C3: after add_moving_averages, SMA_Short[i] and SMA_Long[i] are the means
\* of the last min(window, i+1) closes ending at i, both columns are as long
\* as the close column, and no entry is missing, for every row.
C3_MovingAveragesAreWindowMeans ==
    price_data_with_ma # None =>
        LET df == heap[price_data_with_ma]
        IN  /\ Len(df["SMA_Short"]) = Len(df["Close"])
            /\ Len(df["SMA_Long"]) = Len(df["Close"])
            /\ Len(df["Close"]) >= 1
            /\ \A i \in 1..Len(df["Close"]) :
                  /\ IsWindowMean(df["SMA_Short"][i], df["Close"], short_window, i)
                  /\ IsWindowMean(df["SMA_Long"][i], df["Close"], long_window, i)

C3_Witness ==
    /\ price_data_with_ma # None
    /\ short_window = 2 /\ long_window = 3
    /\ Len(heap[price_data_with_ma]["Close"]) = MaxLen
    /\ heap[price_data_with_ma]["Close"][1] # heap[price_data_with_ma]["Close"][MaxLen]

\* C4: position[i] = signal[i] - signal[i-1], one of -1, 0, 1, for every row
\* after the first, and the first row's position is the missing value, never
\* 0, 1 or -1.
C4_PositionIsFirstDifference ==
    HasSignals =>
        /\ Len(Signals.positions) = Len(Signals.signal)
        /\ Signals.positions[1] = NaN
        /\ Signals.positions[1] \notin {Num(-1), Num(0), Num(1)}
        /\ \A i \in 2..Len(Signals.signal) :
              /\ Signals.positions[i] = Num(Signals.signal[i] - Signals.signal[i - 1])
              /\ Signals.positions[i] \in {Num(-1), Num(0), Num(1)}

C4_Witness ==
    /\ HasSignals /\ entry = "app" /\ pc = "chart"
    /\ \E i, j, k \in 2..Len(Signals.positions) :
          /\ Signals.positions[i] = Num(1)
          /\ Signals.positions[j] = Num(-1)
          /\ Signals.positions[k] = Num(0)

\* C5: with longWindow <= shortWindow each entry point reports a
\* configuration error and performs no fetch, no moving-average computation
\* and no signal generation.
C5_BadWindowsRejected ==
    (long_window <= short_window /\ pc # "start") =>
        /\ ConfigError \in messages
        /\ called = {}
        /\ pc = "done"

\* C6: when the fetch yields no data or raises, fetch_data reports a message
\* and returns None and the run ends there: no later step is reached and no
\* result exists, the same for both causes.
C6_FetchFailureHalts ==
    fetch_outcome \in {"empty", "exception"} =>
        /\ price_data = None
        /\ messages \cap {"No data found", "An error occurred while fetching data"} # {}
        /\ pc = "done"
        /\ called = {"fetch_data"}
        /\ price_data_with_ma = None
        /\ trading_signals = None
        /\ "df2" \notin DOMAIN heap
        /\ outputs = <<<<>>, <<>>, <<>>, <<>>, <<>>>>

C6_Witness ==
    /\ fetch_outcome = "exception" /\ pc = "done" /\ entry = "main"
    /\ "An error occurred while fetching data" \in messages

\* C7: the number of BUY events minus the number of SELL events equals
\* signal[last] - signal[0].
C7_SumRule ==
    /\ (entry = "main" /\ "execute_trades" \in called) =>
          CountAction(trades, "BUY") - CountAction(trades, "SELL")
            = Signals.signal[Len(Signals.signal)] - Signals.signal[1]
    /\ (entry = "app" /\ pc \in {"log", "done"} /\ HasSignals) =>
          Len(buy_signals) - Len(sell_signals)
            = Signals.signal[Len(Signals.signal)] - Signals.signal[1]

C7_Witness ==
    /\ entry = "main" /\ "execute_trades" \in called
    /\ CountAction(trades, "BUY") = 2
    /\ CountAction(trades, "SELL") = 1

\* C8 as stated: the call of add_moving_averages leaves the caller's price
\* series with exactly the fields and values it had.
C8_NoSideEffects ==
    [][pc = "add_ma" => heap'[price_data] = heap[price_data]]_vars

\* C8 amended: the call keeps every field and value the caller's series had,
\* adds the fields SMA_Short and SMA_Long to that same series, and returns
\* the series it was given.
C8_AddsColumnsInPlace ==
    [][pc = "add_ma" =>
          /\ DOMAIN heap'[price_data] = (DOMAIN heap[price_data]) \cup {"SMA_Short", "SMA_Long"}
          /\ \A c \in DOMAIN heap[price_data] : heap'[price_data][c] = heap[price_data][c]
          /\ price_data_with_ma' = price_data
          /\ price_data' = price_data]_vars

C8_Witness ==
    /\ pc = "gen"
    /\ price_data_with_ma = price_data
    /\ price_data # None
    /\ DOMAIN heap[price_data] = {"Close", "SMA_Short", "SMA_Long"}

\* C9: every row of the 'Sample of Trades' view has position 1 or -1; a row
\* with position 0 or the missing position of the first row is never in it.
C9_SampleRowsAreTrades ==
    (entry = "main" /\ pc = "done" /\ HasSignals) =>
        \A k \in DOMAIN sample_trades :
            Signals.positions[sample_trades[k]] \in {Num(1), Num(-1)}

\* the events of a list, in row order, start with BUY and alternate
Alternates(events) ==
    /\ Len(events) > 0 => events[1].action = "BUY"
    /\ \A k \in 1..(Len(events) - 1) :
          /\ events[k].index < events[k + 1].index
          /\ events[k].action # events[k + 1].action
    /\ CountAction(events, "BUY") - CountAction(events, "SELL") \in {0, 1}

\* C10: with longWindow > shortWindow >= 1, signal[0] is 0 and the trade
\* events in row order start with BUY and strictly alternate, so BUYs minus
\* SELLs is 0 or 1.
C10_EventsAlternateFromBuy ==
    (long_window > short_window /\ short_window >= 1) =>
        /\ HasSignals => Signals.signal[1] = 0
        /\ (entry = "main" /\ "execute_trades" \in called) => Alternates(trades)
        /\ (entry = "app" /\ pc = "done" /\ HasSignals) => Alternates(trade_log)

C10_Witness ==
    /\ entry = "app" /\ pc = "done" /\ HasSignals
    /\ long_window > short_window
    /\ Len(trade_log) = 3

====
